---- MODULE Spec2Model ----
(***************************************************************************)
(* Model of the resumable, cached pagination engine of gci:                *)
(*   - GPTCache (src/gci/cache/gpt.py): pages, checkpoint, complete record *)
(*     kept in one DiskCache per workspace;                                *)
(*   - ComplianceAPIClient._paginate (src/gci/api/client.py);              *)
(*   - the download command (src/gci/cli/commands/download.py);            *)
(*   - load_cached_gpts (src/gci/cli/utils/data.py).                       *)
(*                                                                         *)
(* Python's None is modelled as 0 for cursors and ids (ids are non-empty   *)
(* strings in the program, hence truthy; here they are 1, 2, ...), as -1   *)
(* for an omitted integer argument, and as the record None for an absent   *)
(* cache value.                                                            *)
(***************************************************************************)
EXTENDS Integers, Sequences, FiniteSets, TLC

\* ------------------------------------------------------------------ bounds
\* Largest result set the remote API may hold.
MaxRecs == 5
\* Page size of the remote API (the `limit` query parameter, scaled down).
PageLimit == 2
\* Largest page number the cache-operation specification writes or reads.
MaxPageOp == 2

\* ------------------------------------------------------------ cache values
None == [kind |-> "none"]
\* An entry whose stored bytes no longer deserialize into its model.
Corrupt == [kind |-> "corrupt"]

NoneInt == 0 - 1

\* A raw GPT record as returned by the API: only its id matters here.
Rec(i) == [id |-> i]

CachePage(page, data, last_id) ==
    [kind |-> "page", page |-> page, data |-> data, last_id |-> last_id,
     count |-> Len(data)]

CacheCheckpoint(last_gpt_id, last_page, total_items) ==
    [kind |-> "checkpoint", last_gpt_id |-> last_gpt_id,
     last_page |-> last_page, total_items |-> total_items]

CompleteCache(total_items, total_pages, data) ==
    [kind |-> "complete", total_items |-> total_items,
     total_pages |-> total_pages, data |-> data]

LoadedCacheResult(data, used_cache) == [data |-> data, used_cache |-> used_cache]

\* pydantic model_validate: succeeds iff the stored value has the model's shape.
model_validate(v, kind) == v.kind = kind

\* ------------------------------------------------------- DiskCache (store)
\* The store is a function from keys to values; a key is present iff it is
\* in the function's domain.
PageKey(n) == <<"page", n>>
CheckpointKey == <<"checkpoint", 0>>
CompleteKey == <<"complete", 0>>

EmptyCache == [k \in {} |-> None]

CacheSet(c, k, v) == [x \in (DOMAIN c) \cup {k} |-> IF x = k THEN v ELSE c[x]]
CacheGet(c, k) == IF k \in DOMAIN c THEN c[k] ELSE None
CacheDelete(c, k) == [x \in (DOMAIN c) \ {k} |-> c[x]]
CacheContains(c, k) == k \in DOMAIN c

\* Outcome of one GPTCache method: the store afterwards, whether the call
\* raised to its caller, and the returned value.
Returned(c, v) == [cache |-> c, raised |-> FALSE, ret |-> v]
Raised(c) == [cache |-> c, raised |-> TRUE, ret |-> None]

\* ------------------------------------------------------------- GPTCache
\* `fail` says that the underlying store call of this method raises.
save_page(c, page_num, data, last_id, fail) ==
    IF fail THEN Raised(c)
    ELSE Returned(CacheSet(c, PageKey(page_num), CachePage(page_num, data, last_id)), None)

save_checkpoint(c, last_gpt_id, page_num, total_items, fail) ==
    IF fail THEN Raised(c)
    ELSE Returned(CacheSet(c, CheckpointKey,
                           CacheCheckpoint(last_gpt_id, page_num, total_items)), None)

load_checkpoint(c, fail) ==
    IF fail THEN Returned(c, None)
    ELSE LET checkpoint_data == CacheGet(c, CheckpointKey)
         IN  IF checkpoint_data # None /\ model_validate(checkpoint_data, "checkpoint")
             THEN Returned(c, checkpoint_data)
             ELSE Returned(c, None)

RECURSIVE load_pages_loop(_, _, _, _)
load_pages_loop(c, up_to_page, page_num, results) ==
    IF up_to_page # NoneInt /\ up_to_page # 0 /\ page_num > up_to_page
    THEN results
    ELSE LET page_data == CacheGet(c, PageKey(page_num))
         IN  IF page_data = None THEN results
             ELSE IF ~model_validate(page_data, "page") THEN results
             ELSE load_pages_loop(c, up_to_page, page_num + 1, results \o page_data.data)

load_cached_pages(c, up_to_page, fail) ==
    IF fail THEN Returned(c, <<>>)
    ELSE Returned(c, load_pages_loop(c, up_to_page, 1, <<>>))

\* Mutant: the Checkpoint is left in place.
remove_checkpoint_Keep(c, fail) == Returned(c, None)

remove_checkpoint(c, fail) ==
    IF fail THEN Returned(c, None)
    ELSE Returned(CacheDelete(c, CheckpointKey), None)

clear_cache(c, fail) ==
    IF fail THEN Raised(c) ELSE Returned(EmptyCache, None)

has_cache(c) ==
    IF CacheContains(c, CheckpointKey) THEN TRUE
    ELSE IF CacheContains(c, CompleteKey) THEN TRUE
    ELSE CacheContains(c, PageKey(1))

\* Mutant: total_items is filled from the page count.
save_complete_results_PageCount(c, results, total_pages, fail) ==
    IF fail THEN Raised(c)
    ELSE Returned(CacheSet(c, CompleteKey,
                           CompleteCache(total_pages, total_pages, results)), None)

save_complete_results(c, results, total_pages, fail) ==
    IF fail THEN Raised(c)
    ELSE Returned(CacheSet(c, CompleteKey,
                           CompleteCache(Len(results), total_pages, results)), None)

load_complete_results(c, fail) ==
    IF fail THEN Returned(c, None)
    ELSE LET complete_data == CacheGet(c, CompleteKey)
         IN  IF complete_data # None /\ model_validate(complete_data, "complete")
             THEN Returned(c, complete_data)
             ELSE Returned(c, None)

has_complete_cache(c) == CacheContains(c, CompleteKey)

\* ------------------------------------------------------------------ state
VARIABLES
    nRecs,        \* remote API: the workspace holds records with ids 1..nRecs
    apiOmitAt,    \* remote API: the cursor whose response carries no last_id (NoneInt: none)
    cache,        \* the workspace's DiskCache: key -> stored value
    pc,           \* position of the download command / _paginate
    mode,         \* how the current run started: "none", "fresh", "resume", "cached"
    resume_from,  \* _paginate's resume_from argument (0: None)
    results,      \* _paginate: accumulator
    cursor,       \* _paginate: live cursor (0: None)
    page,         \* _paginate: page counter
    after,        \* params["after"] as sent with the last request (0: not set)
    resp,         \* the ListResponse being processed
    requests,     \* number of page requests issued by the current run
    respLog,      \* the responses received by the current run, in order
    op,           \* cache-operation specification: the last operation and its arguments
    prevSaved,    \* the operation before it was a save_complete_results that returned
    pre,          \* the store before the last operation
    ret,          \* what the last operation returned
    raised,       \* whether the last operation raised to its caller
    session,      \* ComplianceAPIClient.session: "none", "open" or "closed"
    rq,           \* the _make_request / validate_credentials call in progress
    disk,         \* ~/.gci/cache: directory path -> the DiskCache stored there
    scorer,       \* rapidfuzz's partial_ratio of the query against each search text
    risk          \* the risk cache, and the `gci risk` command in progress

world == <<nRecs, apiOmitAt>>
proc == <<pc, mode, resume_from, results, cursor, page, after, resp, requests, respLog>>
ops == <<op, prevSaved, pre, ret, raised>>
ext == <<session, rq, disk, scorer, risk>>
vars == <<nRecs, apiOmitAt, cache, pc, mode, resume_from, results, cursor, page,
          after, resp, requests, respLog, op, prevSaved, pre, ret, raised,
          session, rq, disk, scorer, risk>>

NoResp == [data |-> <<>>, has_more |-> FALSE, last_id |-> 0]
NoOp == [name |-> "none", fail |-> FALSE]

\* No _make_request / validate_credentials call has been made yet.
NoOut == [kind |-> "none"]
NoRq == [call |-> "none", state |-> "idle", in_scope |-> FALSE, tries |-> 0,
         http |-> 0, out |-> NoOut, ret |-> None, err |-> None]

\* A workspace id is the path it contributes below ~/.gci/cache: pathlib
\* splits the id at every "/", so an id is its sequence of path components.
WsA == <<"A">>
WsB == <<"B">>
WsASearch == <<"A", "search">>
Workspaces == {WsA, WsB, WsASearch}

\* GPTCache.__init__: cache_dir = ~/.gci/cache/<workspace_id>
GPTCacheDir(workspace_id) == workspace_id

\* GPTSearcher.__init__: cache_dir = ~/.gci/cache/<workspace_id>/search
GPTSearcherDir(workspace_id) == workspace_id \o <<"search">>

Dirs == {GPTCacheDir(w) : w \in Workspaces} \cup {GPTSearcherDir(w) : w \in Workspaces}
EmptyDisk == [d \in Dirs |-> EmptyCache]

\* The texts a record can contribute to the search index, and the scorer of
\* a workspace in which nothing is searched.
SearchTexts == {"alpha", "beta"}
NoScorer == [t \in SearchTexts |-> 0]

\* The risk cache of a workspace before the first `gci risk`, no command
\* running. savedFor remembers, for each key of the cache, the input the
\* entry under it was last saved for.
NoRisk == [cache |-> EmptyCache, savedFor |-> EmptyCache, pc |-> "idle",
           llm_model |-> "", llm_provider |-> "", no_cache |-> FALSE, batch_size |-> 0,
           remaining_gpts |-> <<>>, all_classifications |-> <<>>]

InitExt ==
    /\ session = "none"
    /\ rq = NoRq
    /\ disk = EmptyDisk
    /\ scorer = NoScorer
    /\ risk = NoRisk

\* ------------------------------------------------------------ remote API
Min(a, b) == IF a < b THEN a ELSE b

\* GET .../gpts?limit=PageLimit&after=<after_>: the records that follow the
\* cursor, at most PageLimit of them; has_more says whether more follow;
\* last_id is the id of the last record of the batch, null for an empty
\* batch (and for the one response the API sends without it).
ListResponse(n, omitAt, after_) ==
    LET data == [i \in 1..Min(PageLimit, n - after_) |-> Rec(after_ + i)]
    IN  [data |-> data,
         has_more |-> (n - after_ > PageLimit),
         last_id |-> IF data = <<>> \/ after_ = omitAt THEN 0 ELSE data[Len(data)].id]

\* --------------------------------------------------------- download command
\* download_gpts._download_gpts up to the point where the client is built:
\* what happens to the cache, whether the complete cache is served, and the
\* resume cursor handed to _paginate.
\* Mutant: serving the CompleteCache removes a Checkpoint left beside it.
DownloadStart_ServeDropsCheckpoint(c, force, confirm) ==
    LET fresh(c2) == [cache |-> c2, served |-> FALSE, data |-> <<>>, resume_from |-> 0]
    IN  IF force THEN fresh(clear_cache(c, FALSE).cache)
        ELSE IF has_complete_cache(c)
        THEN [cache |-> remove_checkpoint(c, FALSE).cache, served |-> TRUE,
              data |-> load_complete_results(c, FALSE).ret.data, resume_from |-> 0]
        ELSE IF load_checkpoint(c, FALSE).ret # None
        THEN IF confirm
             THEN [cache |-> c, served |-> FALSE, data |-> <<>>,
                   resume_from |-> load_checkpoint(c, FALSE).ret.last_gpt_id]
             ELSE fresh(clear_cache(c, FALSE).cache)
        ELSE fresh(c)

\* Mutant: declining to resume starts over without clearing the cache.
DownloadStart_DeclineKeeps(c, force, confirm) ==
    LET fresh(c2) == [cache |-> c2, served |-> FALSE, data |-> <<>>, resume_from |-> 0]
    IN  IF force THEN fresh(clear_cache(c, FALSE).cache)
        ELSE IF has_complete_cache(c)
        THEN [cache |-> c, served |-> TRUE,
              data |-> load_complete_results(c, FALSE).ret.data, resume_from |-> 0]
        ELSE IF load_checkpoint(c, FALSE).ret # None /\ confirm
        THEN [cache |-> c, served |-> FALSE, data |-> <<>>,
              resume_from |-> load_checkpoint(c, FALSE).ret.last_gpt_id]
        ELSE fresh(c)

DownloadStart(c, force, confirm) ==
    LET fresh(c2) == [cache |-> c2, served |-> FALSE, data |-> <<>>, resume_from |-> 0]
    IN  IF force THEN fresh(clear_cache(c, FALSE).cache)
        ELSE IF has_complete_cache(c)
        THEN LET complete_data == load_complete_results(c, FALSE).ret
             IN  IF complete_data # None
                 THEN [cache |-> c, served |-> TRUE, data |-> complete_data.data,
                       resume_from |-> 0]
                 ELSE fresh(c)
        ELSE IF has_cache(c)
        THEN LET checkpoint == load_checkpoint(c, FALSE).ret
             IN  IF checkpoint # None
                 THEN IF confirm
                      THEN [cache |-> c, served |-> FALSE, data |-> <<>>,
                            resume_from |-> checkpoint.last_gpt_id]
                      ELSE fresh(clear_cache(c, FALSE).cache)
                 ELSE fresh(c)
        ELSE fresh(c)

\* ------------------------------------------------------------- _paginate
\* Mutant: the resumed run does not seed the accumulator from the cached pages.
load_cached_data_NoSeed(c, resume) ==
    LET checkpoint == load_checkpoint(c, FALSE).ret
    IN  IF checkpoint = None
        THEN [results |-> <<>>, page |-> 0, cursor |-> 0]
        ELSE [results |-> <<>>, page |-> checkpoint.last_page, cursor |-> resume]

\* Mutant: without a Checkpoint the caller's resume cursor is kept.
load_cached_data_KeepCursor(c, resume) ==
    LET checkpoint == load_checkpoint(c, FALSE).ret
    IN  IF checkpoint = None
        THEN [results |-> <<>>, page |-> 0, cursor |-> resume]
        ELSE LET res == load_cached_pages(c, checkpoint.last_page, FALSE).ret
             IN  [results |-> res, page |-> checkpoint.last_page,
                  cursor |-> IF res # <<>> THEN res[Len(res)].id ELSE resume]

load_cached_data(c, resume) ==
    LET checkpoint == load_checkpoint(c, FALSE).ret
    IN  IF checkpoint = None
        THEN [results |-> <<>>, page |-> 0, cursor |-> 0]
        ELSE LET res == load_cached_pages(c, checkpoint.last_page, FALSE).ret
             IN  [results |-> res, page |-> checkpoint.last_page,
                  cursor |-> IF res # <<>> THEN res[Len(res)].id ELSE resume]

\* Lines 238-259: the locals before the loop. The cache namespace is always
\* active here: the download command passes the workspace id as cache_key.
PaginateInit(c, resume) ==
    IF resume # 0 THEN load_cached_data(c, resume)
    ELSE [results |-> <<>>, page |-> 0, cursor |-> resume]

\* Line 277: whether the page just received is persisted.
ShouldSave(response) == response.data # <<>> /\ response.last_id # 0

\* Mutant: the loop ends only when both fields are falsy.
LoopBreaks_Both(response) == ~response.has_more /\ response.last_id = 0

\* Lines 280-283: the loop's exit test.
LoopBreaks(response) == ~response.has_more \/ response.last_id = 0

\* Line 288: whether the final cache operations run.
ShouldComplete(res) == res # <<>>

ResetProc ==
    /\ pc' = "idle"
    /\ mode' = "none"
    /\ resume_from' = 0
    /\ results' = <<>>
    /\ cursor' = 0
    /\ page' = 0
    /\ after' = 0
    /\ resp' = NoResp
    /\ requests' = 0
    /\ respLog' = <<>>

\* `gci download [--force]`: lines 55-89 of the command.
StartDownload(force, confirm) ==
    /\ pc = "idle"
    /\ LET d == DownloadStart(cache, force, confirm)
       IN  /\ cache' = d.cache
           /\ resume_from' = d.resume_from
           /\ IF d.served
              THEN /\ pc' = "done"
                   /\ mode' = "cached"
                   /\ results' = d.data
              ELSE /\ pc' = "connect"
                   /\ mode' = IF d.resume_from # 0 THEN "resume" ELSE "fresh"
                   /\ results' = <<>>
    /\ op' = [name |-> "download", fail |-> FALSE, force |-> force, confirm |-> confirm]
    /\ pre' = cache
    /\ UNCHANGED <<cursor, page, after, resp, requests, respLog, world, ext,
                   prevSaved, ret, raised>>

\* with_api_client: credential validation succeeds, then _paginate sets up
\* its locals.
ConnectOk ==
    /\ pc = "connect"
    /\ LET i == PaginateInit(cache, resume_from)
       IN  /\ results' = i.results
           /\ page' = i.page
           /\ cursor' = i.cursor
    /\ pc' = "fetch"
    /\ UNCHANGED <<cache, mode, resume_from, after, resp, requests, respLog, world, ext, ops>>

\* with_api_client: credential validation raises; no page is requested.
ConnectFail ==
    /\ pc = "connect"
    /\ pc' = "connect_failed"
    /\ UNCHANGED <<cache, mode, resume_from, results, cursor, page, after, resp,
                   requests, respLog, world, ext, ops>>

AfterLoopTest(response) == IF LoopBreaks(response) THEN "finalize" ELSE "fetch"

\* Lines 263-274 with a successful _fetch_page.
FetchPageOk ==
    /\ pc = "fetch"
    /\ LET a == IF cursor # 0 THEN cursor ELSE after
           response == ListResponse(nRecs, apiOmitAt, a)
       IN  /\ after' = a
           /\ resp' = response
           /\ results' = results \o response.data
           /\ page' = page + 1
           /\ requests' = requests + 1
           /\ respLog' = Append(respLog, response)
           /\ IF ShouldSave(response)
              THEN pc' = "save_page" /\ cursor' = cursor
              ELSE /\ pc' = AfterLoopTest(response)
                   /\ cursor' = IF LoopBreaks(response) THEN cursor ELSE response.last_id
    /\ UNCHANGED <<cache, mode, resume_from, world, ext, ops>>

\* Lines 263-266 with _fetch_page raising (timeout, transport failure after
\* the retries, HTTP error status): the exception leaves _paginate.
FetchPageFail ==
    /\ pc = "fetch"
    /\ after' = IF cursor # 0 THEN cursor ELSE after
    /\ requests' = requests + 1
    /\ pc' = "failed"
    /\ UNCHANGED <<cache, mode, resume_from, results, cursor, page, resp, respLog,
                   world, ext, ops>>

\* Mutant: the page entry holds everything accumulated so far.
SavePage_Accumulated ==
    /\ pc = "save_page"
    /\ cache' = save_page(cache, page, results, resp.last_id, FALSE).cache
    /\ pc' = "save_checkpoint"
    /\ UNCHANGED <<mode, resume_from, results, cursor, page, after, resp, requests,
                   respLog, world, ext, ops>>

\* _save_to_cache, first statement.
SavePage ==
    /\ pc = "save_page"
    /\ cache' = save_page(cache, page, resp.data, resp.last_id, FALSE).cache
    /\ pc' = "save_checkpoint"
    /\ UNCHANGED <<mode, resume_from, results, cursor, page, after, resp, requests,
                   respLog, world, ext, ops>>

\* Mutant: the Checkpoint counts the records of the last page only.
SaveCheckpoint_LastPageCount ==
    /\ pc = "save_checkpoint"
    /\ cache' = save_checkpoint(cache, resp.last_id, page, Len(resp.data), FALSE).cache
    /\ pc' = AfterLoopTest(resp)
    /\ cursor' = IF LoopBreaks(resp) THEN cursor ELSE resp.last_id
    /\ UNCHANGED <<mode, resume_from, results, page, after, resp, requests, respLog,
                   world, ext, ops>>

\* Mutant: the Checkpoint records the cursor the request carried.
SaveCheckpoint_RequestCursor ==
    /\ pc = "save_checkpoint"
    /\ cache' = save_checkpoint(cache, after, page, Len(results), FALSE).cache
    /\ pc' = AfterLoopTest(resp)
    /\ cursor' = IF LoopBreaks(resp) THEN cursor ELSE resp.last_id
    /\ UNCHANGED <<mode, resume_from, results, page, after, resp, requests, respLog,
                   world, ext, ops>>

\* _save_to_cache, second statement, then the loop's exit test.
SaveCheckpoint ==
    /\ pc = "save_checkpoint"
    /\ cache' = save_checkpoint(cache, resp.last_id, page, Len(results), FALSE).cache
    /\ pc' = AfterLoopTest(resp)
    /\ cursor' = IF LoopBreaks(resp) THEN cursor ELSE resp.last_id
    /\ UNCHANGED <<mode, resume_from, results, page, after, resp, requests, respLog,
                   world, ext, ops>>

\* Lines 288-289.
Finalize ==
    /\ pc = "finalize"
    /\ IF ShouldComplete(results)
       THEN /\ cache' = save_complete_results(cache, results, page, FALSE).cache
            /\ pc' = "remove_checkpoint"
       ELSE /\ cache' = cache
            /\ pc' = "done"
    /\ UNCHANGED <<mode, resume_from, results, cursor, page, after, resp, requests,
                   respLog, world, ext, ops>>

\* Line 290.
RemoveCheckpoint ==
    /\ pc = "remove_checkpoint"
    /\ cache' = remove_checkpoint(cache, FALSE).cache
    /\ pc' = "done"
    /\ UNCHANGED <<mode, resume_from, results, cursor, page, after, resp, requests,
                   respLog, world, ext, ops>>

Running == {"connect", "fetch", "save_page", "save_checkpoint", "finalize",
            "remove_checkpoint"}

\* The process is killed (signal, crash) between two steps: only the cache
\* survives.
Interrupt ==
    /\ pc \in Running
    /\ ResetProc
    /\ UNCHANGED <<cache, world, ext, ops>>

\* The command returns or the error reaches the operator; the process ends.
Exit ==
    /\ pc \in {"done", "failed", "connect_failed"}
    /\ ResetProc
    /\ UNCHANGED <<cache, world, ext, ops>>

InitProc ==
    /\ pc = "idle"
    /\ mode = "none"
    /\ resume_from = 0
    /\ results = <<>>
    /\ cursor = 0
    /\ page = 0
    /\ after = 0
    /\ resp = NoResp
    /\ requests = 0
    /\ respLog = <<>>

InitOps ==
    /\ op = NoOp
    /\ prevSaved = FALSE
    /\ pre = EmptyCache
    /\ ret = None
    /\ raised = FALSE

Init ==
    /\ nRecs \in 0..MaxRecs
    /\ apiOmitAt \in {NoneInt} \cup {a \in 0..MaxRecs : a < nRecs /\ a % PageLimit = 0}
    /\ cache = EmptyCache
    /\ InitProc
    /\ InitOps
    /\ InitExt

Next ==
    \/ \E force, confirm \in BOOLEAN : StartDownload(force, confirm)
    \/ ConnectOk
    \/ ConnectFail
    \/ FetchPageOk
    \/ FetchPageFail
    \/ SavePage
    \/ SaveCheckpoint
    \/ Finalize
    \/ RemoveCheckpoint
    \/ Interrupt
    \/ Exit

Spec == Init /\ [][Next]_vars

\* ------------------------------------------------ _paginate called directly
\* list_gpts(resume_from): a caller starts one pagination run on the
\* workspace's cache namespace with a resume cursor of its own choice (0:
\* none), on whatever earlier runs left in the cache.

\* page_i as a run against this API stores it.
SeedPage(n, omitAt, i) ==
    LET r == ListResponse(n, omitAt, (i - 1) * PageLimit)
    IN  CachePage(i, r.data, r.last_id)

\* Whether a run against this API gets as far as storing page_k.
SeedReaches(n, omitAt, k) ==
    \A i \in 1..k :
        LET r == ListResponse(n, omitAt, (i - 1) * PageLimit)
        IN  ShouldSave(r) /\ (i < k => ~LoopBreaks(r))

\* The cache an earlier run left: page_1..page_k, the Checkpoint of page
\* ckAt (0: none, as after a run that completed), and page `damaged` no
\* longer readable (0: none).
SeedCache(n, omitAt, k, ckAt, damaged) ==
    LET key(i) == PageKey(i)
        pages == [x \in {key(i) : i \in 1..k} |->
                     IF x[2] = damaged THEN Corrupt ELSE SeedPage(n, omitAt, x[2])]
    IN  IF ckAt = 0 THEN pages
        ELSE CacheSet(pages, CheckpointKey,
                      CacheCheckpoint(SeedPage(n, omitAt, ckAt).last_id, ckAt,
                                      Min(n, ckAt * PageLimit)))

SeedCaches(n, omitAt) ==
    {EmptyCache} \cup
    {SeedCache(n, omitAt, k, ckAt, damaged) :
        k \in {x \in 1..MaxRecs : SeedReaches(n, omitAt, x)},
        ckAt \in 0..MaxRecs, damaged \in 0..MaxRecs}

InitPaginate ==
    /\ nRecs \in 0..MaxRecs
    /\ apiOmitAt \in {NoneInt} \cup {a \in 0..MaxRecs : a < nRecs /\ a % PageLimit = 0}
    /\ cache \in {c \in SeedCaches(nRecs, apiOmitAt) :
                    \/ ~CacheContains(c, CheckpointKey)
                    \/ /\ CacheContains(c, PageKey(c[CheckpointKey].last_page))
                       /\ ~CacheContains(c, PageKey(c[CheckpointKey].last_page + 2))}
    /\ pc = "connect"
    /\ resume_from \in 0..MaxRecs
    /\ mode = IF resume_from # 0 THEN "resume" ELSE "fresh"
    /\ results = <<>>
    /\ cursor = 0
    /\ page = 0
    /\ after = 0
    /\ resp = NoResp
    /\ requests = 0
    /\ respLog = <<>>
    /\ InitOps
    /\ InitExt

NextPaginate ==
    \/ ConnectOk
    \/ FetchPageOk
    \/ FetchPageFail
    \/ SavePage
    \/ SaveCheckpoint
    \/ Finalize
    \/ RemoveCheckpoint

SpecPaginate == InitPaginate /\ [][NextPaginate]_vars

\* ------------------------------------------------------ load_cached_gpts
\* Mutant: force_fresh is not looked at.
load_cached_gpts_IgnoreForce(c, force_fresh, auto_accept, confirm) ==
    LET out(data, used) == [data |-> data, used_cache |-> used, cache |-> c, requests |-> 0]
        complete_data == load_complete_results(c, FALSE).ret
    IN  IF has_complete_cache(c) /\ complete_data # None
        THEN IF auto_accept \/ confirm
             THEN out(complete_data.data, TRUE)
             ELSE out(<<>>, FALSE)
        ELSE out(<<>>, FALSE)

\* Mutant: a declined cache is cleared.
load_cached_gpts_ClearOnDecline(c, force_fresh, auto_accept, confirm) ==
    LET out(data, used, c2) ==
            [data |-> data, used_cache |-> used, cache |-> c2, requests |-> 0]
    IN  IF force_fresh THEN out(<<>>, FALSE, c)
        ELSE LET complete_data == load_complete_results(c, FALSE).ret
             IN  IF has_complete_cache(c) /\ complete_data # None
                 THEN IF auto_accept \/ confirm
                      THEN out(complete_data.data, TRUE, c)
                      ELSE out(<<>>, FALSE, clear_cache(c, FALSE).cache)
                 ELSE out(<<>>, FALSE, c)

\* The Result Loader. `confirm` is the operator's answer to "Use cached
\* results?". Besides the LoadedCacheResult the outcome carries the store as
\* the function leaves it and the number of API requests it issued.
load_cached_gpts(c, force_fresh, auto_accept, confirm) ==
    LET out(data, used) == [data |-> data, used_cache |-> used, cache |-> c, requests |-> 0]
    IN  IF force_fresh THEN out(<<>>, FALSE)
        ELSE LET complete_data == load_complete_results(c, FALSE).ret
             IN  IF has_complete_cache(c) /\ complete_data # None
                 THEN IF auto_accept \/ confirm
                      THEN out(complete_data.data, TRUE)
                      ELSE out(<<>>, FALSE)
                 ELSE IF has_cache(c) /\ load_checkpoint(c, FALSE).ret # None
                 THEN out(<<>>, FALSE)   \* the incomplete session is reported
                 ELSE out(<<>>, FALSE)

\* ------------------------------------ the Page Cache driven operation by operation
\* Inputs of the cache operations.
OpPages == 1..MaxPageOp
OpData(n) == <<Rec(2 * n - 1), Rec(2 * n)>>
OpResults == {<<>>, <<Rec(1), Rec(2)>>}
OpUpTo == {NoneInt} \cup (0..MaxPageOp)

\* One operation was carried out with outcome r.
Did(o, r) ==
    /\ cache' = r.cache
    /\ ret' = r.ret
    /\ raised' = r.raised
    /\ pre' = cache
    /\ prevSaved' = (op.name = "save_complete_results" /\ ~raised)
    /\ op' = o
    /\ UNCHANGED <<world, ext, proc>>

OpSavePage ==
    \E n \in OpPages, fail \in BOOLEAN :
        Did([name |-> "save_page", fail |-> fail],
            save_page(cache, n, OpData(n), 2 * n, fail))

OpSaveCheckpoint ==
    \E n \in OpPages, fail \in BOOLEAN :
        Did([name |-> "save_checkpoint", fail |-> fail],
            save_checkpoint(cache, 2 * n, n, 2 * n, fail))

OpSaveCompleteResults ==
    \E res \in OpResults, fail \in BOOLEAN :
        Did([name |-> "save_complete_results", fail |-> fail],
            save_complete_results(cache, res, 1, fail))

OpLoadCheckpoint ==
    \E fail \in BOOLEAN :
        Did([name |-> "load_checkpoint", fail |-> fail], load_checkpoint(cache, fail))

OpLoadCachedPages ==
    \E up_to \in OpUpTo, fail \in BOOLEAN :
        Did([name |-> "load_cached_pages", fail |-> fail, up_to_page |-> up_to],
            load_cached_pages(cache, up_to, fail))

OpLoadCompleteResults ==
    \E fail \in BOOLEAN :
        Did([name |-> "load_complete_results", fail |-> fail],
            load_complete_results(cache, fail))

OpRemoveCheckpoint ==
    \E fail \in BOOLEAN :
        Did([name |-> "remove_checkpoint", fail |-> fail], remove_checkpoint(cache, fail))

OpClearCache ==
    \E fail \in BOOLEAN :
        Did([name |-> "clear_cache", fail |-> fail], clear_cache(cache, fail))

\* An entry on disk is damaged: its key stays, its value no longer validates.
OpCorrupt ==
    \E k \in DOMAIN cache :
        Did([name |-> "corrupt", fail |-> FALSE],
            Returned(CacheSet(cache, k, Corrupt), None))

OpLoadCachedGpts ==
    \E force_fresh, auto_accept, confirm \in BOOLEAN :
        LET r == load_cached_gpts(cache, force_fresh, auto_accept, confirm)
        IN  /\ cache' = r.cache
            /\ requests' = requests + r.requests
            /\ ret' = LoadedCacheResult(r.data, r.used_cache)
            /\ raised' = FALSE
            /\ pre' = cache
            /\ prevSaved' = (op.name = "save_complete_results" /\ ~raised)
            /\ op' = [name |-> "load_cached_gpts", fail |-> FALSE,
                      force_fresh |-> force_fresh, auto_accept |-> auto_accept,
                      confirm |-> confirm]
            /\ UNCHANGED <<world, ext, pc, mode, resume_from, results, cursor, page, after,
                           resp, respLog>>

InitCache ==
    /\ nRecs = 0
    /\ apiOmitAt = NoneInt
    /\ cache = EmptyCache
    /\ InitProc
    /\ InitOps
    /\ InitExt

NextCache ==
    \/ OpSavePage
    \/ OpSaveCheckpoint
    \/ OpSaveCompleteResults
    \/ OpLoadCheckpoint
    \/ OpLoadCachedPages
    \/ OpLoadCompleteResults
    \/ OpRemoveCheckpoint
    \/ OpClearCache
    \/ OpCorrupt
    \/ OpLoadCachedGpts

SpecCache == InitCache /\ [][NextCache]_vars

\* ------------------------------------------------------- request layer
BackoffMaxTries == 5
RequestTimeout == 30

\* What one HTTP exchange can come to: the transport fails (connection
\* error, read timeout: a requests.RequestException), or a response arrives
\* with a status, a raw body (a JSON document) and possibly a Retry-After
\* header, which HTTP lets be a number of seconds or a date.
Statuses == {200, 204, 400, 401, 403, 404, 408, 429, 499, 500, 503, 599, 600}
Bodies == {"{}", "{\"error\": 1}"}
RetryAfterValues == {"", "0", "120", "Wed, 21 Oct 2026 07:28:00 GMT"}
Headers == {<<>>} \cup {("Retry-After" :> v) : v \in RetryAfterValues}
Transport == [kind |-> "transport"]
Response(status_code, text, headers) ==
    [kind |-> "response", status_code |-> status_code, text |-> text, headers |-> headers]
HttpOutcomes ==
    {Transport} \cup {Response(s, b, h) : s \in Statuses, b \in Bodies, h \in Headers}

\* response.headers.get(name): None (here "") when the header is absent;
\* both are falsy where the code tests the value.
HeadersGet(headers, name) == IF name \in DOMAIN headers THEN headers[name] ELSE ""

\* int(s) of a header value: defined on decimal strings, ValueError otherwise.
IsDecimal(s) == s \in {"0", "120"}
int(s) == CASE s = "0" -> 0 [] s = "120" -> 120

\* response.json()
json(text) == [json |-> text]

\* gci.exceptions, as far as a caller can tell them apart: the class and
\* the attributes the instance carries.
APIError(type, status_code, message, response_text) ==
    [type |-> type, status_code |-> status_code, message |-> message,
     response_text |-> response_text]
RateLimitError(response_text, retry_after) ==
    [type |-> "RateLimitError", status_code |-> 429, message |-> "Rate limit exceeded",
     response_text |-> response_text, retry_after |-> retry_after]
TimeoutError(operation, timeout_seconds) ==
    [type |-> "TimeoutError", operation |-> operation, timeout_seconds |-> timeout_seconds]
Exception(type) == [type |-> type]

Return(value) == [kind |-> "return", value |-> value, http |-> 1]
Raise(exc, http) == [kind |-> "raise", exc |-> exc, http |-> http]

\* One execution of the body of _make_request against one HTTP outcome.
make_request(sess, out) ==
    IF sess = "none" THEN Raise(Exception("RuntimeError"), 0)
    ELSE IF out.kind = "transport" THEN Raise(Exception("RequestException"), 1)
    ELSE IF out.status_code = 200 THEN Return(json(out.text))
    ELSE IF out.status_code = 401
         THEN Raise(APIError("AuthenticationError", 401, "Unauthorized access", out.text), 1)
    ELSE IF out.status_code = 403
         THEN Raise(APIError("PermissionError", 403, "Access forbidden", out.text), 1)
    ELSE IF out.status_code = 404
         THEN Raise(APIError("NotFoundError", 404, "Resource not found", out.text), 1)
    ELSE IF out.status_code = 408
         THEN Raise(TimeoutError("GET", RequestTimeout), 1)
    ELSE IF out.status_code = 429
         THEN LET ra == HeadersGet(out.headers, "Retry-After")
              IN  IF ra = "" THEN Raise(RateLimitError(out.text, NoneInt), 1)
                  ELSE IF IsDecimal(ra) THEN Raise(RateLimitError(out.text, int(ra)), 1)
                  ELSE Raise(Exception("ValueError"), 1)
    ELSE IF 500 <= out.status_code /\ out.status_code < 600
         THEN Raise(APIError("APIError", out.status_code, "Server error", out.text), 1)
    ELSE Raise(APIError("APIError", out.status_code, "Unexpected response status",
                        out.text), 1)

\* Mutant: backoff allows one attempt more.
backoff_gives_up_OneMore(tries) == tries > BackoffMaxTries

\* backoff.on_exception(..., max_tries=BACKOFF_MAX_TRIES): the exception of
\* the tries-th attempt is re-raised once tries reaches max_tries.
backoff_gives_up(tries) == tries >= BackoffMaxTries

\* The exceptions backoff retries on: requests.RequestException and its
\* subclasses.
IsRequestException(exc) == exc.type \in {"RequestException", "HTTPError"}

\* Mutant: 404 is reported like 403.
validate_credentials_NotFoundAsDenied(out) ==
    IF out.kind = "transport" THEN Raise(Exception("RequestException"), 1)
    ELSE IF out.status_code = 401
         THEN Raise(APIError("InvalidCredentialsError", 401, "Invalid API key", None), 1)
    ELSE IF out.status_code \in {403, 404}
         THEN Raise(APIError("PermissionError", 403, "Access denied for workspace", None), 1)
    ELSE IF out.status_code >= 400 THEN Raise(Exception("HTTPError"), 1)
    ELSE Return(None)

\* validate_credentials: one GET on a session of its own, no retry.
validate_credentials(out) ==
    IF out.kind = "transport" THEN Raise(Exception("RequestException"), 1)
    ELSE IF out.status_code = 401
         THEN Raise(APIError("InvalidCredentialsError", 401, "Invalid API key", None), 1)
    ELSE IF out.status_code = 403
         THEN Raise(APIError("PermissionError", 403, "Access denied for workspace", None), 1)
    ELSE IF out.status_code = 404 THEN Raise(Exception("ValueError"), 1)
    ELSE IF out.status_code >= 400 THEN Raise(Exception("HTTPError"), 1)
    ELSE Return(None)

\* __enter__: a new requests.Session.
Enter ==
    /\ rq.state # "trying"
    /\ session' = "open"
    /\ UNCHANGED <<world, cache, proc, ops, rq, disk, scorer, risk>>

\* __exit__: the session, if there is one, is closed; self.session keeps
\* referring to it.
ExitContext ==
    /\ rq.state # "trying"
    /\ session' = IF session = "none" THEN "none" ELSE "closed"
    /\ UNCHANGED <<world, cache, proc, ops, rq, disk, scorer, risk>>

\* A caller invokes _make_request.
CallRequest ==
    /\ rq.state # "trying"
    /\ rq' = [NoRq EXCEPT !.call = "_make_request", !.state = "trying",
                          !.in_scope = (session = "open")]
    /\ UNCHANGED <<world, cache, proc, ops, session, disk, scorer, risk>>

\* One attempt of the call in progress, under the backoff decorator.  A
\* closed requests.Session still sends: close() only drops its pooled
\* connections.
Attempt(out) ==
    /\ rq.call = "_make_request"
    /\ rq.state = "trying"
    /\ LET r == make_request(session, out)
           tries == rq.tries + 1
           seen == [rq EXCEPT !.tries = tries, !.http = rq.http + r.http,
                              !.out = IF r.http = 0 THEN NoOut ELSE out]
       IN  rq' = IF r.kind = "return"
                 THEN [seen EXCEPT !.state = "returned", !.ret = r.value]
                 ELSE IF IsRequestException(r.exc) /\ ~backoff_gives_up(tries)
                 THEN seen
                 ELSE [seen EXCEPT !.state = "raised", !.err = r.exc]
    /\ UNCHANGED <<world, cache, proc, ops, session, disk, scorer, risk>>

\* A caller invokes validate_credentials.
ValidateCredentials(out) ==
    /\ rq.state # "trying"
    /\ LET r == validate_credentials(out)
           seen == [NoRq EXCEPT !.call = "validate_credentials",
                                !.in_scope = (session = "open"),
                                !.tries = 1, !.http = r.http, !.out = out]
       IN  rq' = IF r.kind = "return"
                 THEN [seen EXCEPT !.state = "returned", !.ret = r.value]
                 ELSE [seen EXCEPT !.state = "raised", !.err = r.exc]
    /\ UNCHANGED <<world, cache, proc, ops, session, disk, scorer, risk>>

NextRequest ==
    \/ Enter
    \/ ExitContext
    \/ CallRequest
    \/ \E out \in HttpOutcomes : Attempt(out)
    \/ \E out \in HttpOutcomes : ValidateCredentials(out)

SpecRequest == InitCache /\ [][NextRequest]_vars

\* --------------------------------------------------------------- search
\* A GPT record as the searcher sees it: its id, the content its search
\* text is made of, and created_at, which the API delivers as a timestamp
\* (instants are counted in minutes) and other sources as a date string.
Gpt(id, text, created_at) == [id |-> id, text |-> text, created_at |-> created_at]
Timestamp(value) == [type |-> "int", value |-> value]
DateString(value) == [type |-> "str", value |-> value]

GptVariants ==
    {Gpt(1, "alpha", Timestamp(10)), Gpt(1, "beta", Timestamp(9)),
     Gpt(1, "alpha", DateString("next blue moon")),
     Gpt(2, "alpha", Timestamp(10)), Gpt(2, "beta", DateString("00:11"))}

\* The record lists handed to the searcher: ids are unique within a list.
GptLists ==
    {<<>>} \cup {<<g>> : g \in GptVariants}
           \cup {p \in {<<g, h>> : g \in GptVariants, h \in GptVariants} : p[1].id # p[2].id}

\* partial_ratio of the query against a search text: some function of the
\* text, the same in every call.
ScoreTables ==
    {[t \in SearchTexts |-> IF t = "alpha" THEN 90 ELSE 70],
     [t \in SearchTexts |-> IF t = "alpha" THEN 95 ELSE 69],
     [t \in SearchTexts |-> IF t = "alpha" THEN 89 ELSE 30]}
Thresholds == {70, 90}

\* dateparser.parse: the instant a date string denotes, None (NoneInt) for
\* a string that denotes none.
dateparser_parse(date_string) ==
    CASE date_string = "00:09" -> 9
      [] date_string = "00:10" -> 10
      [] date_string = "00:11" -> 11
      [] OTHER -> NoneInt

\* The parse of a record's created_at in _filter_by_date.
gpt_dt(gpt) ==
    IF gpt.created_at.type = "int" THEN gpt.created_at.value
    ELSE dateparser_parse(gpt.created_at.value)

\* Mutant: the bounds are exclusive.
filter_by_date_Exclusive(gpts_data, after_str, before_str) ==
    LET after_dt == IF after_str # "" THEN dateparser_parse(after_str) ELSE NoneInt
        before_dt == IF before_str # "" THEN dateparser_parse(before_str) ELSE NoneInt
        Keep(gpt) == /\ gpt_dt(gpt) # NoneInt
                     /\ ~(after_dt # NoneInt /\ gpt_dt(gpt) <= after_dt)
                     /\ ~(before_dt # NoneInt /\ gpt_dt(gpt) >= before_dt)
    IN  IF after_dt = NoneInt /\ before_dt = NoneInt THEN gpts_data
        ELSE SelectSeq(gpts_data, Keep)

\* GPTSearcher._filter_by_date ("" stands for a bound that is not given).
filter_by_date(gpts_data, after_str, before_str) ==
    LET after_dt == IF after_str # "" THEN dateparser_parse(after_str) ELSE NoneInt
        before_dt == IF before_str # "" THEN dateparser_parse(before_str) ELSE NoneInt
        Keep(gpt) == /\ gpt_dt(gpt) # NoneInt
                     /\ ~(after_dt # NoneInt /\ gpt_dt(gpt) < after_dt)
                     /\ ~(before_dt # NoneInt /\ gpt_dt(gpt) > before_dt)
    IN  IF after_dt = NoneInt /\ before_dt = NoneInt THEN gpts_data
        ELSE SelectSeq(gpts_data, Keep)

\* The searcher's cache entry: key search_index_<workspace_id>, value the
\* index, a dict id -> search text in insertion order.
SearchIndexKey(workspace_id) == <<"search_index", workspace_id>>
SearchIndex(entries) == [kind |-> "search_index", entries |-> entries]

\* Mutant: the index is rebuilt from the records of every call.
get_or_build_search_index_Rebuild(c, workspace_id, gpts_data) ==
    LET index == [i \in 1..Len(gpts_data) |->
                     [id |-> gpts_data[i].id, text |-> gpts_data[i].text]]
    IN  [index |-> index,
         cache |-> CacheSet(c, SearchIndexKey(workspace_id), SearchIndex(index))]

\* GPTSearcher._get_or_build_search_index: the cached index if there is
\* one, else the index of the records passed, which is then cached.
get_or_build_search_index(c, workspace_id, gpts_data) ==
    IF CacheContains(c, SearchIndexKey(workspace_id))
    THEN [index |-> c[SearchIndexKey(workspace_id)].entries, cache |-> c]
    ELSE LET index == [i \in 1..Len(gpts_data) |->
                          [id |-> gpts_data[i].id, text |-> gpts_data[i].text]]
         IN  [index |-> index,
              cache |-> CacheSet(c, SearchIndexKey(workspace_id), SearchIndex(index))]

\* sorted(..., reverse=True) on the score: descending, ties in input order.
InsertByScore(sorted, e) ==
    LET k == Cardinality({i \in 1..Len(sorted) : sorted[i].score >= e.score})
    IN  SubSeq(sorted, 1, k) \o <<e>> \o SubSeq(sorted, k + 1, Len(sorted))

RECURSIVE SortByScore(_)
SortByScore(matches) ==
    IF matches = <<>> THEN <<>>
    ELSE InsertByScore(SortByScore(SubSeq(matches, 1, Len(matches) - 1)),
                       matches[Len(matches)])

\* Mutant: the cutoff keeps the scores at or below it.
process_extract_Below(score, index, score_cutoff) ==
    LET scored == [i \in 1..Len(index) |->
                      [id |-> index[i].id, score |-> score[index[i].text]]]
        Above(m) == m.score <= score_cutoff
    IN  SortByScore(SelectSeq(scored, Above))

\* rapidfuzz.process.extract(query, index, scorer=partial_ratio,
\* score_cutoff=threshold, limit=None): the index entries scoring at least
\* the cutoff, best first.
process_extract(score, index, score_cutoff) ==
    LET scored == [i \in 1..Len(index) |->
                      [id |-> index[i].id, score |-> score[index[i].text]]]
        Above(m) == m.score >= score_cutoff
    IN  SortByScore(SelectSeq(scored, Above))

\* GPTSearcher._fuzzy_search: the matches of the index whose id is among
\* the records passed, each as the record passed under that id.
fuzzy_search(c, workspace_id, gpts_data, threshold, score) ==
    LET built == get_or_build_search_index(c, workspace_id, gpts_data)
        ids == {gpts_data[i].id : i \in 1..Len(gpts_data)}
        id_to_gpt(id) == gpts_data[CHOOSE i \in 1..Len(gpts_data) :
                             /\ gpts_data[i].id = id
                             /\ \A j \in (i + 1)..Len(gpts_data) : gpts_data[j].id # id]
        Known(m) == m.id \in ids
        matches == SelectSeq(process_extract(score, built.index, threshold), Known)
    IN  [ret |-> [i \in 1..Len(matches) |-> id_to_gpt(matches[i].id)],
         cache |-> built.cache]

\* GPTSearcher.filter_and_search ("" stands for an argument that is None).
filter_and_search(c, workspace_id, gpts_data, search_query, created_after, created_before, threshold, score) ==
    LET dated == IF created_after # "" \/ created_before # ""
                 THEN filter_by_date(gpts_data, created_after, created_before)
                 ELSE gpts_data
    IN  IF search_query # ""
        THEN fuzzy_search(c, workspace_id, dated, threshold, score)
        ELSE [ret |-> dated, cache |-> c]

SearchCalls ==
    {[name |-> "filter_and_search", fail |-> FALSE, gpts_data |-> l, search_query |-> q,
      created_after |-> a, created_before |-> b, threshold |-> t] :
        l \in GptLists, q \in {"q"}, a \in {"", "00:10"}, b \in {""},
        t \in Thresholds}
    \cup
    {[name |-> "filter_and_search", fail |-> FALSE, gpts_data |-> l, search_query |-> "",
      created_after |-> a, created_before |-> b, threshold |-> 70] :
        l \in GptLists, a \in {"", "00:10", "whenever"}, b \in {"", "00:10"}}

\* A command of workspace A searches the records it loaded.
Search(call) ==
    LET dir == GPTSearcherDir(WsA)
        r == filter_and_search(disk[dir], WsA, call.gpts_data, call.search_query,
                               call.created_after, call.created_before,
                               call.threshold, scorer)
    IN  /\ disk' = [disk EXCEPT ![dir] = r.cache]
        /\ ret' = r.ret
        /\ raised' = FALSE
        /\ pre' = disk[dir]
        /\ prevSaved' = FALSE
        /\ op' = call
        /\ UNCHANGED <<world, cache, proc, session, rq, scorer, risk>>

\* GPTSearcher.clear_cache
ClearSearchCache ==
    LET dir == GPTSearcherDir(WsA)
    IN  /\ disk' = [disk EXCEPT ![dir] = EmptyCache]
        /\ ret' = None
        /\ raised' = FALSE
        /\ pre' = disk[dir]
        /\ prevSaved' = FALSE
        /\ op' = [name |-> "GPTSearcher.clear_cache", fail |-> FALSE]
        /\ UNCHANGED <<world, cache, proc, session, rq, scorer, risk>>

InitSearch ==
    /\ nRecs = 0
    /\ apiOmitAt = NoneInt
    /\ cache = EmptyCache
    /\ InitProc
    /\ InitOps
    /\ session = "none"
    /\ rq = NoRq
    /\ disk = EmptyDisk
    /\ scorer \in ScoreTables
    /\ risk = NoRisk

NextSearch ==
    \/ \E call \in SearchCalls : Search(call)
    \/ ClearSearchCache

SpecSearch == InitSearch /\ [][NextSearch]_vars

\* ------------------------------------------------- workspaces on one disk
\* The store operations of the commands of workspace w, each on the
\* directory its GPTCache or GPTSearcher opens.  A download run is a
\* sequence of the GPTCache operations.
OnDisk(w, name, dir, c) ==
    /\ disk' = [disk EXCEPT ![dir] = c]
    /\ ret' = None
    /\ raised' = FALSE
    /\ pre' = disk[dir]
    /\ prevSaved' = FALSE
    /\ op' = [name |-> name, fail |-> FALSE, workspace_id |-> w]
    /\ UNCHANGED <<world, cache, proc, session, rq, scorer, risk>>

WsSavePage(w) ==
    OnDisk(w, "save_page", GPTCacheDir(w),
           save_page(disk[GPTCacheDir(w)], 1, OpData(1), 2, FALSE).cache)

WsSaveCheckpoint(w) ==
    OnDisk(w, "save_checkpoint", GPTCacheDir(w),
           save_checkpoint(disk[GPTCacheDir(w)], 2, 1, 2, FALSE).cache)

WsSaveCompleteResults(w) ==
    OnDisk(w, "save_complete_results", GPTCacheDir(w),
           save_complete_results(disk[GPTCacheDir(w)], OpData(1), 1, FALSE).cache)

WsRemoveCheckpoint(w) ==
    OnDisk(w, "remove_checkpoint", GPTCacheDir(w),
           remove_checkpoint(disk[GPTCacheDir(w)], FALSE).cache)

WsClearCache(w) ==
    OnDisk(w, "clear_cache", GPTCacheDir(w),
           clear_cache(disk[GPTCacheDir(w)], FALSE).cache)

WsBuildSearchIndex(w) ==
    OnDisk(w, "get_or_build_search_index", GPTSearcherDir(w),
           get_or_build_search_index(disk[GPTSearcherDir(w)], w,
                                     <<Gpt(1, "alpha", Timestamp(10))>>).cache)

WsClearSearchCache(w) ==
    OnDisk(w, "GPTSearcher.clear_cache", GPTSearcherDir(w), EmptyCache)

NextWorkspaces ==
    \E w \in Workspaces :
        \/ WsSavePage(w)
        \/ WsSaveCheckpoint(w)
        \/ WsSaveCompleteResults(w)
        \/ WsRemoveCheckpoint(w)
        \/ WsClearCache(w)
        \/ WsBuildSearchIndex(w)
        \/ WsClearSearchCache(w)

SpecWorkspaces == InitCache /\ [][NextWorkspaces]_vars

\* ------------------------------------------- searches and downloads of one
\* workspace: the text searches of workspace A, the clearing of its search
\* cache, and the store operations its download runs perform.
IndexCalls ==
    {call \in SearchCalls : call.search_query # "" /\ call.created_after = ""
                               /\ call.threshold = 70}

NextSearchDownload ==
    \/ \E call \in IndexCalls : Search(call)
    \/ ClearSearchCache
    \/ WsSavePage(WsA)
    \/ WsSaveCheckpoint(WsA)
    \/ WsSaveCompleteResults(WsA)
    \/ WsRemoveCheckpoint(WsA)
    \/ WsClearCache(WsA)

SpecSearchDownload == InitSearch /\ [][NextSearchDownload]_vars

\* ------------------------------------------------- risk classification
\* File names in Python's string order, the order sorted() puts them in.
RiskFileOrder == <<"a.pdf", "b.pdf", "c.pdf", "d.pdf">>
FileRank(f) == CHOOSE i \in 1..Len(RiskFileOrder) : RiskFileOrder[i] = f

RECURSIVE InsertFile(_, _)
InsertFile(f, s) ==
    IF s = <<>> THEN <<f>>
    ELSE IF FileRank(f) <= FileRank(Head(s)) THEN <<f>> \o s
    ELSE <<Head(s)>> \o InsertFile(f, Tail(s))

RECURSIVE sorted(_)
sorted(s) == IF s = <<>> THEN <<>> ELSE InsertFile(Head(s), sorted(Tail(s)))

\* sep.join(s) on strings.
RECURSIVE join(_, _)
join(sep, s) ==
    IF s = <<>> THEN ""
    ELSE IF Len(s) = 1 THEN s[1]
    ELSE s[1] \o sep \o join(sep, Tail(s))

\* s[:n]
FirstN(s, n) == SubSeq(s, 1, IF Len(s) < n THEN Len(s) ELSE n)

\* RiskClassificationCache._generate_cache_key
generate_cache_key(gpt_id, file_names, llm_model, llm_provider) ==
    LET files_key == IF file_names # <<>>
                     THEN join("_", FirstN(sorted(file_names), 3))
                     ELSE "no_files"
    IN  gpt_id \o "_" \o llm_provider \o "_" \o llm_model \o "_" \o files_key

GPTRiskClassification(gpt_id, gpt_name, file_names, risk_level, reasoning) ==
    [kind |-> "risk", gpt_id |-> gpt_id, gpt_name |-> gpt_name,
     file_names |-> file_names, risk_level |-> risk_level, reasoning |-> reasoning]

\* RiskClassificationCache.get_classification
get_classification(c, gpt_id, file_names, llm_model, llm_provider) ==
    LET cache_key == generate_cache_key(gpt_id, file_names, llm_model, llm_provider)
        cached_data == CacheGet(c, cache_key)
    IN  IF cached_data # None /\ model_validate(cached_data, "risk")
        THEN cached_data
        ELSE None

\* RiskClassificationCache.save_classification
save_classification(c, classification, file_names, llm_model, llm_provider) ==
    CacheSet(c, generate_cache_key(classification.gpt_id, file_names, llm_model,
                                   llm_provider),
             classification)

\* RiskClassificationCache.get_batch_classifications
get_batch_classifications(c, gpts_data, llm_model, llm_provider) ==
    LET Get(t) == get_classification(c, t[1], t[3], llm_model, llm_provider)
        Hit(t) == Get(t) # None
        Miss(t) == Get(t) = None
        hits == SelectSeq(gpts_data, Hit)
    IN  [cached |-> [i \in 1..Len(hits) |-> Get(hits[i])],
         uncached |-> SelectSeq(gpts_data, Miss)]

\* gpt_files_map.get(gpt_id, []): the dict comprehension keeps the file
\* names of the last tuple with that id.
gpt_files_map_get(gpts_data, gpt_id) ==
    LET at == {i \in 1..Len(gpts_data) : gpts_data[i][1] = gpt_id}
    IN  IF at = {} THEN <<>>
        ELSE gpts_data[CHOOSE i \in at : \A j \in at : j <= i][3]

\* RiskClassificationCache.save_batch_classifications
RECURSIVE save_batch_classifications(_, _, _, _, _)
save_batch_classifications(c, classifications, gpts_data, llm_model, llm_provider) ==
    IF classifications = <<>> THEN c
    ELSE save_batch_classifications(
             save_classification(c, Head(classifications),
                                 gpt_files_map_get(gpts_data, Head(classifications).gpt_id),
                                 llm_model, llm_provider),
             Tail(classifications), gpts_data, llm_model, llm_provider)

\* The input each saved entry was saved for, kept beside the cache: under
\* the key of every save_classification call of save_batch_classifications,
\* the (gpt_id, set of file names, model, provider) of that call.
RECURSIVE SavedForAfter(_, _, _, _, _)
SavedForAfter(sf, classifications, gpts_data, llm_model, llm_provider) ==
    IF classifications = <<>> THEN sf
    ELSE LET gpt_id == Head(classifications).gpt_id
             file_names == gpt_files_map_get(gpts_data, gpt_id)
         IN  SavedForAfter(
                 CacheSet(sf, generate_cache_key(gpt_id, file_names, llm_model,
                                                 llm_provider),
                          <<gpt_id, {file_names[i] : i \in 1..Len(file_names)},
                            llm_model, llm_provider>>),
                 Tail(classifications), gpts_data, llm_model, llm_provider)

\* The LLM call of one batch: it raises, or it answers with one
\* classification per GPT of the prompt, under the GPT's name.
LlmFailed == [ok |-> FALSE, risk_level |-> "Low"]
LlmAnswers == {[ok |-> TRUE, risk_level |-> "High"], LlmFailed}

\* classify_batch, the lookup of the GPT id by name: the first GPT of the
\* batch with that name, "" if there is none.
gpt_id_by_name(gpts_data, gpt_name) ==
    LET at == {i \in 1..Len(gpts_data) : gpts_data[i][2] = gpt_name}
    IN  IF at = {} THEN ""
        ELSE gpts_data[CHOOSE i \in at : \A j \in at : i <= j][1]

\* RiskClassificationService.classify_batch
classify_batch(gpts_data, llm) ==
    IF llm.ok
    THEN [i \in 1..Len(gpts_data) |->
             GPTRiskClassification(gpt_id_by_name(gpts_data, gpts_data[i][2]),
                                   gpts_data[i][2], gpts_data[i][3],
                                   llm.risk_level, "llm")]
    ELSE [i \in 1..Len(gpts_data) |->
             GPTRiskClassification(gpts_data[i][1], gpts_data[i][2],
                                   gpts_data[i][3], "Low",
                                   "Classification failed")]

\* The GPTs with files of the workspace, each as the command hands it on,
\* (gpt_id, gpt_name, file_names): g-1 before and after a fourth file was
\* attached to it, and g-2.
RiskGpts ==
    {<<"g-1", "Alpha", <<"c.pdf", "b.pdf", "a.pdf">>>>,
     <<"g-1", "Alpha", <<"a.pdf", "b.pdf", "c.pdf", "d.pdf">>>>,
     <<"g-2", "Beta", <<"b.pdf", "a.pdf">>>>}
RiskGptLists ==
    {<<g>> : g \in RiskGpts}
        \cup {p \in {<<g, h>> : g \in RiskGpts, h \in RiskGpts} : p[1][1] # p[2][1]}
LlmModels == {"gpt-4o"}
LlmProviders == {"openai", "anthropic"}
BatchSizes == {1, 2}

\* `gci risk` up to the batch loop: the cached classifications are taken
\* from the risk cache unless --no-cache is given.
StartRisk(gpts_data, llm_model, llm_provider, no_cache, batch_size) ==
    /\ risk.pc = "idle"
    /\ LET found == get_batch_classifications(risk.cache, gpts_data, llm_model,
                                              llm_provider)
       IN  risk' = [risk EXCEPT
                       !.pc = "batches",
                       !.llm_model = llm_model,
                       !.llm_provider = llm_provider,
                       !.no_cache = no_cache,
                       !.batch_size = batch_size,
                       !.remaining_gpts = IF no_cache THEN gpts_data ELSE found.uncached,
                       !.all_classifications = IF no_cache THEN <<>> ELSE found.cached]
    /\ op' = [name |-> "classify_risk", fail |-> FALSE]
    /\ ret' = None
    /\ UNCHANGED <<world, cache, proc, prevSaved, pre, raised, session, rq, disk, scorer>>

\* One turn of the batch loop: classify_batch, then
\* save_batch_classifications unless --no-cache is given.
ClassifyBatch(llm) ==
    /\ risk.pc = "batches"
    /\ risk.remaining_gpts # <<>>
    /\ LET batch_data == FirstN(risk.remaining_gpts, risk.batch_size)
           batch_classifications == classify_batch(batch_data, llm)
       IN  /\ risk' = [risk EXCEPT
                          !.remaining_gpts =
                              SubSeq(risk.remaining_gpts, Len(batch_data) + 1,
                                     Len(risk.remaining_gpts)),
                          !.all_classifications = @ \o batch_classifications,
                          !.cache =
                              IF risk.no_cache THEN @
                              ELSE save_batch_classifications(
                                       @, batch_classifications, batch_data,
                                       risk.llm_model, risk.llm_provider),
                          !.savedFor =
                              IF risk.no_cache THEN @
                              ELSE SavedForAfter(@, batch_classifications, batch_data,
                                                 risk.llm_model, risk.llm_provider)]
           /\ op' = [name |-> "classify_batch", fail |-> ~llm.ok]
    /\ UNCHANGED <<world, cache, proc, prevSaved, pre, ret, raised, session, rq, disk,
                   scorer>>

\* The loop is over: the command prints all_classifications and ends.
FinishRisk ==
    /\ risk.pc = "batches"
    /\ risk.remaining_gpts = <<>>
    /\ risk' = [risk EXCEPT !.pc = "idle", !.all_classifications = <<>>]
    /\ op' = [name |-> "classify_risk_output", fail |-> FALSE]
    /\ UNCHANGED <<world, cache, proc, prevSaved, pre, ret, raised, session, rq, disk,
                   scorer>>

\* A call of get_classification between two commands.
GetClassification(t, llm_model, llm_provider) ==
    /\ risk.pc = "idle"
    /\ ret' = get_classification(risk.cache, t[1], t[3], llm_model,
                                 llm_provider)
    /\ op' = [name |-> "get_classification", fail |-> FALSE, gpt_id |-> t[1],
              file_names |-> t[3], llm_model |-> llm_model,
              llm_provider |-> llm_provider]
    /\ UNCHANGED <<world, cache, proc, prevSaved, pre, raised, session, rq, disk, scorer,
                   risk>>

NextRisk ==
    \/ \E gpts_data \in RiskGptLists, llm_model \in LlmModels,
          llm_provider \in LlmProviders, no_cache \in BOOLEAN, batch_size \in BatchSizes :
           StartRisk(gpts_data, llm_model, llm_provider, no_cache, batch_size)
    \/ \E llm \in LlmAnswers : ClassifyBatch(llm)
    \/ FinishRisk
    \/ \E t \in RiskGpts, llm_model \in LlmModels, llm_provider \in LlmProviders :
           GetClassification(t, llm_model, llm_provider)

SpecRisk == InitCache /\ [][NextRisk]_vars

\* ================================================================= claims

\* The list a run that starts at the first page and is never interrupted
\* returns, computed on the remote API alone.
RECURSIVE FetchAll(_, _, _, _)
FetchAll(n, omitAt, after_, acc) ==
    LET r == ListResponse(n, omitAt, after_)
    IN  IF ~r.has_more \/ r.last_id = 0 THEN acc \o r.data
        ELSE FetchAll(n, omitAt, r.last_id, acc \o r.data)

UninterruptedResult == FetchAll(nRecs, apiOmitAt, 0, <<>>)

RECURSIVE ConcatData(_)
ConcatData(log) ==
    IF log = <<>> THEN <<>> ELSE log[1].data \o ConcatData(Tail(log))

Paginated == pc = "done" /\ mode \in {"fresh", "resume"}

\* C1: a run resumed from the persisted checkpoint returns, when it ends,
\* the same list (order and membership) as an uninterrupted run from the
\* start; so does every fresh run.
C1_ResumeCorrectness ==
    Paginated => results = UninterruptedResult

\* C1 witness: a resumed run ended with pages taken from the cache and at
\* least one page fetched after them.
C1_Witness ==
    /\ pc = "done"
    /\ mode = "resume"
    /\ requests >= 1
    /\ page > requests
    /\ Len(results) > PageLimit

\* C2 as claimed: every normally ended pagination run, the empty result set
\* included, leaves a CompleteCache holding exactly the returned list and no
\* Checkpoint.
C2_CompleteAfterEveryRun ==
    Paginated =>
        /\ has_complete_cache(cache)
        /\ cache[CompleteKey].data = results
        /\ cache[CompleteKey].total_items = Len(results)
        /\ ~CacheContains(cache, CheckpointKey)

\* C2 amended: a normally ended pagination run that returns a non-empty list
\* leaves a CompleteCache holding exactly that list, total_items its length,
\* and no Checkpoint; a run that returns the empty list writes no
\* CompleteCache.
C2_CompleteAfterNonEmptyRun ==
    Paginated =>
        IF results # <<>>
        THEN /\ has_complete_cache(cache)
             /\ cache[CompleteKey].data = results
             /\ cache[CompleteKey].total_items = Len(results)
             /\ ~CacheContains(cache, CheckpointKey)
        ELSE ~has_complete_cache(cache)

\* C2 witness: a resumed run ended with several pages.
C2_Witness ==
    /\ Paginated
    /\ mode = "resume"
    /\ Len(results) > PageLimit
    /\ has_complete_cache(cache)

\* A response that ends the pagination.
Terminal(r) == r.has_more = FALSE \/ r.last_id = 0

\* C3: an uninterrupted run from the start stops with the first response
\* whose has_more is false or whose last_id is absent, has issued exactly as
\* many requests as it got responses, and returns the concatenation of the
\* responses' data in request order.
C3_TerminationAndOrder ==
    (pc = "done" /\ mode = "fresh") =>
        /\ requests = Len(respLog)
        /\ requests >= 1
        /\ Terminal(respLog[requests])
        /\ \A i \in 1..(requests - 1) : ~Terminal(respLog[i])
        /\ results = ConcatData(respLog)

\* C3 witness: has_more = [true, true, false] gave exactly three requests.
C3_Witness ==
    /\ pc = "done"
    /\ mode = "fresh"
    /\ requests = 3
    /\ Len(respLog) = 3
    /\ respLog[1].has_more /\ respLog[2].has_more /\ ~respLog[3].has_more

\* C4: when a page request fails the run stops with that request, no
\* CompleteCache is written, and the Checkpoint and the pages are those of
\* the last persisted page: with page = k-1 pages accumulated, the
\* Checkpoint is (id of the last accumulated record, k-1, number of
\* accumulated records) and pages 1..k-1 hold exactly the accumulated
\* records; with nothing accumulated there is no Checkpoint.
C4_FailureLeavesCheckpoint ==
    pc = "failed" =>
        /\ requests = Len(respLog) + 1
        /\ ~has_complete_cache(cache)
        /\ IF page = 0
           THEN ~CacheContains(cache, CheckpointKey)
           ELSE /\ CacheContains(cache, CheckpointKey)
                /\ cache[CheckpointKey] =
                       CacheCheckpoint(results[Len(results)].id, page, Len(results))
                /\ \A i \in 1..page : CacheContains(cache, PageKey(i))
                /\ load_cached_pages(cache, page, FALSE).ret = results

\* C4 witness: the request for page 3 of a fresh run failed.
C4_Witness ==
    /\ pc = "failed"
    /\ mode = "fresh"
    /\ requests = 3
    /\ page = 2

\* C5 as claimed: between commands, a workspace that holds a CompleteCache
\* holds no Checkpoint.
C5_NoCheckpointBesideComplete ==
    (pc = "idle" /\ has_complete_cache(cache)) => ~CacheContains(cache, CheckpointKey)

\* The pages 1..m that exist and validate, m as large as possible and at most N.
Readable(c, i) == CacheContains(c, PageKey(i)) /\ c[PageKey(i)].kind = "page"
ReadablePrefix(c, limit) ==
    CHOOSE m \in 0..limit :
        /\ \A i \in 1..m : Readable(c, i)
        /\ m = limit \/ ~Readable(c, m + 1)
RECURSIVE PagesUpTo(_, _)
PagesUpTo(c, m) == IF m = 0 THEN <<>> ELSE PagesUpTo(c, m - 1) \o c[PageKey(m)].data

\* C6 as claimed: load_cached_pages(N) never raises and, for every bound
\* N >= 0, returns the records of page_1..page_m, m the largest number <= N
\* such that page_1..page_m all exist and are readable; without a bound it
\* returns the pages up to the first missing or unreadable one.
C6_LoadCachedPages ==
    (op.name = "load_cached_pages" /\ ~op.fail) =>
        /\ ~raised
        /\ ret = PagesUpTo(pre, ReadablePrefix(pre,
                     IF op.up_to_page = NoneInt THEN MaxPageOp ELSE op.up_to_page))

PageCacheOps == {"save_page", "save_checkpoint", "save_complete_results",
                 "load_checkpoint", "load_cached_pages", "load_complete_results",
                 "remove_checkpoint"}

\* C7 as claimed: no Page Cache operation raises to its caller, whether or
\* not the store fails under it.
C7_NoOperationRaises ==
    op.name \in PageCacheOps => ~raised

\* C8: after save_complete_results followed by remove_checkpoint (the store
\* working), has_complete_cache() is true and load_checkpoint() is absent;
\* remove_checkpoint on a cache without Checkpoint changes nothing and does
\* not raise.
C8_IdempotentCompletion ==
    /\ (op.name = "remove_checkpoint" /\ ~op.fail /\ prevSaved) =>
           /\ has_complete_cache(cache)
           /\ load_checkpoint(cache, FALSE).ret = None
    /\ (op.name = "remove_checkpoint" /\ ~CacheContains(pre, CheckpointKey)) =>
           /\ cache = pre
           /\ ~raised

\* C8 witness: the sequence ran on a cache that held a valid Checkpoint.
C8_Witness ==
    /\ op.name = "remove_checkpoint"
    /\ ~op.fail
    /\ prevSaved
    /\ CacheContains(pre, CheckpointKey)
    /\ pre[CheckpointKey].kind = "checkpoint"
    /\ ~CacheContains(cache, CheckpointKey)

CompleteLoadable(c) == CacheContains(c, CompleteKey) /\ c[CompleteKey].kind = "complete"

\* C9: load_cached_gpts returns the CompleteCache's data with used_cache
\* true exactly when force_fresh is false, the CompleteCache can be loaded
\* and auto_accept is set or the operator confirms; otherwise it returns the
\* empty list with used_cache false.
C9_LoaderResult ==
    op.name = "load_cached_gpts" =>
        ret = IF ~op.force_fresh /\ CompleteLoadable(pre) /\ (op.auto_accept \/ op.confirm)
              THEN LoadedCacheResult(pre[CompleteKey].data, TRUE)
              ELSE LoadedCacheResult(<<>>, FALSE)

\* C9 witness: the operator accepted a loadable CompleteCache with records.
C9_Witness ==
    /\ op.name = "load_cached_gpts"
    /\ ~op.force_fresh /\ ~op.auto_accept /\ op.confirm
    /\ ret.used_cache
    /\ ret.data # <<>>

\* C10: load_cached_gpts issues no API request and leaves the pages, the
\* Checkpoint and the CompleteCache as they were, so a declined CompleteCache
\* is still there for the next invocation.
C10_LoaderReadOnly ==
    op.name = "load_cached_gpts" =>
        /\ cache = pre
        /\ requests = 0

\* C10 witness: the operator declined a loadable CompleteCache while a page
\* and a Checkpoint were cached too.
C10_Witness ==
    /\ op.name = "load_cached_gpts"
    /\ ~op.force_fresh /\ ~op.auto_accept /\ ~op.confirm
    /\ CompleteLoadable(cache)
    /\ CacheContains(cache, CheckpointKey)
    /\ CacheContains(cache, PageKey(1))
    /\ ~ret.used_cache

\* A _make_request call that ended on an HTTP response.
Answered ==
    /\ rq.call = "_make_request"
    /\ rq.state \in {"returned", "raised"}
    /\ rq.out.kind = "response"

\* C11: the request layer maps every response status to exactly one
\* outcome: 200 returns the body; 401, 403, 404, 408 raise
\* AuthenticationError, PermissionError, NotFoundError, TimeoutError; 429
\* raises RateLimitError with the Retry-After seconds when the header is
\* present and none otherwise; 500..599 raises the server error and any
\* other status the unexpected-status error, both with status and body.
C11_StatusMapping ==
    Answered =>
        LET s == rq.out.status_code
            ra == HeadersGet(rq.out.headers, "Retry-After")
        IN  IF s = 200 THEN rq.state = "returned" /\ rq.ret = json(rq.out.text)
            ELSE /\ rq.state = "raised"
                 /\ CASE s = 401 -> rq.err.type = "AuthenticationError"
                      [] s = 403 -> rq.err.type = "PermissionError"
                      [] s = 404 -> rq.err.type = "NotFoundError"
                      [] s = 408 -> rq.err.type = "TimeoutError"
                      [] s = 429 -> /\ rq.err.type = "RateLimitError"
                                    /\ ra = "" => rq.err.retry_after = NoneInt
                                    /\ IsDecimal(ra) => rq.err.retry_after = int(ra)
                      [] OTHER -> /\ rq.err.type = "APIError"
                                  /\ rq.err.status_code = s
                                  /\ rq.err.response_text = rq.out.text
                                  /\ rq.err.message =
                                        IF 500 <= s /\ s < 600 THEN "Server error"
                                        ELSE "Unexpected response status"

\* C12: a non-200 response ends the call on that attempt (no backoff
\* retry), and the error raised carries the response's HTTP status code and
\* its raw body.
C12_NonOkSingleAttempt ==
    /\ (rq.call = "_make_request" /\ rq.state = "trying" /\ rq.tries > 0)
           => rq.out.kind = "transport"
    /\ (Answered /\ rq.out.status_code # 200) =>
           /\ rq.state = "raised"
           /\ "status_code" \in DOMAIN rq.err
           /\ rq.err.status_code = rq.out.status_code
           /\ "response_text" \in DOMAIN rq.err
           /\ rq.err.response_text = rq.out.text

C14_NoRequestOutsideScope ==
    (rq.call = "_make_request" /\ ~rq.in_scope /\ rq.tries > 0) =>
        /\ rq.http = 0
        /\ rq.state = "raised"
        /\ rq.err.type = "RuntimeError"

Range(s) == {s[i] : i \in 1..Len(s)}

\* C16: a text search returns exactly the records passed to it (those the
\* date bounds let through) whose score reaches the threshold, whatever
\* was searched in the workspace before.
C16_SearchExact ==
    (op.name = "filter_and_search" /\ op.search_query # "") =>
        Range(ret) =
            {g \in Range(filter_by_date(op.gpts_data, op.created_after, op.created_before)) :
                scorer[g.text] >= op.threshold}

\* The result of the last search call had it been made, on the same index
\* state, with threshold t.
ResultAt(t) ==
    filter_and_search(pre, WsA, op.gpts_data, op.search_query, op.created_after,
                      op.created_before, t, scorer).ret

\* C17: on the same records, query and index state, every record returned
\* at a threshold is returned at every lower threshold.
C17_ThresholdMonotone ==
    (op.name = "filter_and_search" /\ op.search_query # "") =>
        /\ ret = ResultAt(op.threshold)
        /\ \A t1, t2 \in Thresholds :
              t1 >= t2 => Range(ResultAt(t1)) \subseteq Range(ResultAt(t2))

C17_Witness ==
    /\ op.name = "filter_and_search"
    /\ op.search_query # ""
    /\ op.threshold = 90
    /\ ret # <<>>
    /\ Range(ResultAt(70)) # Range(ret)

\* A bound that is not given, or that denotes an instant.
BoundOk(date_string) == date_string = "" \/ dateparser_parse(date_string) # NoneInt

\* C18: the date bounds are inclusive: with bounds a and b, a record whose
\* creation instant d parses is kept iff (a is not given or d >= a) and (b
\* is not given or d <= b), and the records kept are in input order.
C18_DateBoundsInclusive ==
    (op.name = "filter_and_search" /\ op.search_query = ""
        /\ BoundOk(op.created_after) /\ BoundOk(op.created_before)) =>
        LET a == op.created_after
            b == op.created_before
            Kept(g) == g \in Range(ret)
        IN  /\ \A g \in Range(op.gpts_data) :
                  gpt_dt(g) # NoneInt =>
                      (Kept(g) <=> /\ a = "" \/ gpt_dt(g) >= dateparser_parse(a)
                                   /\ b = "" \/ gpt_dt(g) <= dateparser_parse(b))
            /\ ret = SelectSeq(op.gpts_data, Kept)

C18_Witness ==
    /\ op.name = "filter_and_search"
    /\ op.search_query = ""
    /\ op.created_after = "00:10"
    /\ op.created_before = "00:10"
    /\ Len(op.gpts_data) = 2
    /\ \E g \in Range(ret) : gpt_dt(g) = 10
    /\ \E g \in Range(op.gpts_data) \ Range(ret) : gpt_dt(g) = 9

\* What workspace b keeps on a disk d: its pages, Checkpoint and
\* CompleteCache, and its search index.
Holdings(d, b) ==
    [gpts |-> [k \in {PageKey(n) : n \in OpPages} \cup {CheckpointKey, CompleteKey} |->
                  CacheGet(d[GPTCacheDir(b)], k)],
     search |-> CacheGet(d[GPTSearcherDir(b)], SearchIndexKey(b))]

\* C19: workspaces are isolated: a cache operation of one workspace
\* (save_page, save_checkpoint, save_complete_results, remove_checkpoint,
\* clear_cache, search-index build or clear) leaves every page, the
\* Checkpoint, the CompleteCache and the search index of every other
\* workspace as they were.
C19_WorkspaceIsolation ==
    [][\A b \in Workspaces :
          b # op'.workspace_id => Holdings(disk', b) = Holdings(disk, b)]_vars

\* The page number under which the run handles its i-th response: the page
\* counter advances by one with every response.
PageOf(i) == page - Len(respLog) + i

\* C20: within one run, for each response k that carries records and a
\* last id, page_k is written with exactly that batch and then the
\* Checkpoint is overwritten as a whole with (last id of response k, page
\* number k, number of records accumulated so far), both before the
\* request for the next page is issued; the page numbers written are
\* consecutive.
C20_PageThenCheckpoint ==
    mode \in {"fresh", "resume"} =>
        LET n == Len(respLog)
        IN  /\ \A i \in 1..n :
                  (ShouldSave(respLog[i]) /\ (i < n \/ pc # "save_page")) =>
                      CacheGet(cache, PageKey(PageOf(i))) =
                          CachePage(PageOf(i), respLog[i].data, respLog[i].last_id)
            /\ pc = "save_page" => (n >= 1 /\ resp = respLog[n] /\ ShouldSave(resp))
            /\ pc = "save_checkpoint" =>
                  /\ n >= 1 /\ resp = respLog[n] /\ ShouldSave(resp)
                  /\ \/ CacheGet(cache, CheckpointKey) = None
                     \/ CacheGet(cache, CheckpointKey).last_page = PageOf(n) - 1
            /\ (pc \in {"fetch", "finalize"} /\ n >= 1 /\ ShouldSave(respLog[n])) =>
                  CacheGet(cache, CheckpointKey) =
                      CacheCheckpoint(respLog[n].last_id, PageOf(n), Len(results))
            /\ (pc = "fetch" /\ n >= 1) => ShouldSave(respLog[n])

C20_Witness ==
    /\ mode \in {"fresh", "resume"}
    /\ pc = "fetch"
    /\ Len(respLog) >= 2
    /\ CacheContains(cache, PageKey(page))
    /\ CacheGet(cache, CheckpointKey) # None
    /\ CacheGet(cache, CheckpointKey).last_page = page

\* The Checkpoint load_checkpoint returns, None if there is none.
LoadableCheckpoint(c) == load_checkpoint(c, FALSE).ret

\* C21 as claimed: a run that starts with a resume cursor is seeded from
\* all previously cached pages and its first request carries the id of the
\* last cached record, or the caller's resume cursor if no cached records
\* exist (no pages, or no Checkpoint); a later request carries the last_id
\* of the response before it, and the first request of a run without a
\* resume cursor carries no after parameter.
C21_ResumeSeedAsClaimed ==
    [][requests' = requests + 1 =>
          IF requests >= 1 THEN after' = respLog[requests].last_id
          ELSE IF resume_from = 0 THEN after' = 0
          ELSE LET cached == PagesUpTo(cache, ReadablePrefix(cache,
                                                 Cardinality(DOMAIN cache)))
               IN  /\ results = cached
                   /\ after' = IF cached = <<>> \/ LoadableCheckpoint(cache) = None
                               THEN resume_from
                               ELSE cached[Len(cached)].id]_vars

\* C21: a run that starts with a resume cursor and finds a Checkpoint is
\* seeded from the readable pages 1..Checkpoint.last_page, its page counter
\* is Checkpoint.last_page, and its first request carries the id of the
\* last of those records, or the caller's resume cursor if there are none;
\* without a Checkpoint the resume cursor is dropped: nothing is seeded and
\* the first request carries no after parameter, as in a run without a
\* resume cursor.  A later request carries the last_id of the response
\* before it.
C21_ResumeSeed ==
    [][requests' = requests + 1 =>
          IF requests >= 1 THEN after' = respLog[requests].last_id
          ELSE IF resume_from = 0 \/ LoadableCheckpoint(cache) = None
          THEN results = <<>> /\ page = 0 /\ after' = 0
          ELSE LET last_page == LoadableCheckpoint(cache).last_page
                   cached == PagesUpTo(cache, ReadablePrefix(cache, last_page))
               IN  /\ results = cached
                   /\ page = last_page
                   /\ after' = IF cached = <<>> THEN resume_from
                               ELSE cached[Len(cached)].id]_vars

C21_Witness ==
    /\ mode = "resume"
    /\ requests = 1
    /\ page > 1
    /\ after # 0
    /\ Len(results) >= PageLimit

\* The current run is at a point where ending it leaves an unfinished
\* download: it paginates and has not written the CompleteCache.
Unfinished ==
    /\ mode \in {"fresh", "resume"}
    /\ pc \in {"fetch", "save_page", "save_checkpoint", "finalize", "failed"}

\* The current run has stored the page of one of its responses.
PersistedPage ==
    \E i \in 1..Len(respLog) :
        ShouldSave(respLog[i]) /\ (i < Len(respLog) \/ pc # "save_page")

\* C22 as claimed: a run terminated at any point after it persisted at
\* least one page and before it wrote the CompleteCache leaves a cache
\* with a Checkpoint and no CompleteCache.
C22_InterruptDetectableAfterPage ==
    (Unfinished /\ PersistedPage) =>
        /\ LoadableCheckpoint(cache) # None
        /\ ~has_complete_cache(cache)

\* C23 as claimed: a CachePage is written once: with no clear in between,
\* save_page never writes a page_<n> that already exists, and a resumed
\* run never requests a page whose number is <= Checkpoint.last_page.
C23_PageWrittenOnce ==
    [][/\ (pc = "save_page" /\ pc' = "save_checkpoint") =>
              ~CacheContains(cache, PageKey(page))
       /\ (mode = "resume" /\ requests' = requests + 1
               /\ LoadableCheckpoint(cache) # None) =>
              page + 1 > LoadableCheckpoint(cache).last_page]_vars

\* The search index workspace A has cached on disk d, None if it has none.
CachedIndex(d) == CacheGet(d[GPTSearcherDir(WsA)], SearchIndexKey(WsA))

\* C24: the search index of a workspace, once built, is the index every
\* later search scores (whatever record list is passed) and stays as it is
\* through every search and every store operation of a download, clear_cache
\* of the page cache included; only clearing the search cache removes it,
\* and only a search without a cached index builds one.
C24_SearchIndexStable ==
    [][/\ CachedIndex(disk) # None =>
             /\ op'.name # "GPTSearcher.clear_cache" => CachedIndex(disk') = CachedIndex(disk)
             /\ op'.name = "GPTSearcher.clear_cache" => CachedIndex(disk') = None
             /\ op'.name = "filter_and_search" =>
                   LET entries == CachedIndex(disk).entries
                       Hit(g) == \E i \in 1..Len(entries) :
                                    /\ entries[i].id = g.id
                                    /\ scorer[entries[i].text] >= op'.threshold
                   IN  Range(ret') = {g \in Range(op'.gpts_data) : Hit(g)}
       /\ (CachedIndex(disk) = None /\ CachedIndex(disk') # None) =>
             /\ op'.name = "filter_and_search"
             /\ CachedIndex(disk').entries =
                   [i \in 1..Len(op'.gpts_data) |->
                       [id |-> op'.gpts_data[i].id, text |-> op'.gpts_data[i].text]]]_vars

C24_Witness ==
    /\ op.name = "clear_cache"
    /\ op.workspace_id = WsA
    /\ pre # EmptyCache
    /\ disk[GPTCacheDir(WsA)] = EmptyCache
    /\ CachedIndex(disk) # None

\* The last command was `gci download`, and it has not returned yet.
Downloading == op.name = "download" /\ pc # "idle"

\* C25: a non-forced download on a workspace whose CompleteCache can be
\* loaded returns its records, issues no API request and leaves the cache
\* as it found it, a Checkpoint beside the CompleteCache included.
C25_ServeCompleteCache ==
    (Downloading /\ ~op.force /\ CompleteLoadable(pre)) =>
        /\ mode = "cached"
        /\ pc = "done"
        /\ results = pre[CompleteKey].data
        /\ requests = 0
        /\ cache = pre
        /\ CacheContains(pre, CheckpointKey) => CacheContains(cache, CheckpointKey)

C25_Witness ==
    /\ Downloading
    /\ ~op.force
    /\ mode = "cached"
    /\ CompleteLoadable(pre)
    /\ CacheContains(cache, CheckpointKey)

\* The download was forced, or the operator was asked whether to resume
\* and declined.
ForcedOrDeclined ==
    \/ op.force
    \/ /\ ~CompleteLoadable(pre)
       /\ LoadableCheckpoint(pre) # None
       /\ ~op.confirm

\* C26: a forced download, and one where the operator declines to resume,
\* empties the workspace's cache before the first request; the run then
\* starts at page 1 with no cursor, everything in the cache during the run
\* was written by it, and if the run fails no CompleteCache is left.
C26_ForcedStartsClean ==
    (Downloading /\ ForcedOrDeclined) =>
        /\ mode = "fresh"
        /\ resume_from = 0
        /\ requests = 0 => cache = EmptyCache
        /\ requests = 1 => (after = 0 /\ page <= 1)
        /\ \A k \in DOMAIN cache : k[1] = "page" => k[2] <= page
        /\ pc \in {"connect", "fetch", "save_page", "save_checkpoint", "finalize",
                   "failed", "connect_failed"} => ~has_complete_cache(cache)

C26_Witness ==
    /\ Downloading
    /\ ForcedOrDeclined
    /\ has_complete_cache(pre)
    /\ pc = "failed"
    /\ cache # EmptyCache

\* Whether the last search was given this bound and the bound denotes an
\* instant.
BoundParses(date_string) == date_string # "" /\ dateparser_parse(date_string) # NoneInt

\* C27: when at least one date bound is supplied, every returned record
\* has a creation date that parses and lies within the bounds; a record
\* whose creation date does not parse is never returned.
C27_DateFilterDropsUnparseable ==
    (op.name = "filter_and_search"
        /\ (op.created_after # "" \/ op.created_before # "")) =>
        \A g \in Range(ret) :
            /\ gpt_dt(g) # NoneInt
            /\ BoundParses(op.created_after) =>
                   gpt_dt(g) >= dateparser_parse(op.created_after)
            /\ BoundParses(op.created_before) =>
                   gpt_dt(g) <= dateparser_parse(op.created_before)

\* The records stored in page_1..page_n of a store.
StoredUpTo(c, n) == load_pages_loop(c, n, 1, <<>>)

\* C28: Checkpoint consistency: if a Checkpoint with last_page = n exists,
\* page_1..page_n all exist, total_items is the number of records stored in
\* them, and last_gpt_id is the last_id stored in page_n.
C28_CheckpointConsistent ==
    CacheContains(cache, CheckpointKey) =>
        LET checkpoint == cache[CheckpointKey]
            n == checkpoint.last_page
        IN  /\ n >= 1
            /\ \A i \in 1..n : /\ CacheContains(cache, PageKey(i))
                               /\ model_validate(cache[PageKey(i)], "page")
            /\ checkpoint.total_items = Len(StoredUpTo(cache, n))
            /\ checkpoint.last_gpt_id = cache[PageKey(n)].last_id

C28_Witness ==
    /\ mode = "resume"
    /\ pc = "fetch"
    /\ CacheContains(cache, CheckpointKey)
    /\ cache[CheckpointKey].last_page = page
    /\ page >= 2
    /\ requests >= 1
    /\ cache[CheckpointKey].total_items > Len(cache[PageKey(page)].data)

\* C29: the risk cache key is unique per input: get_classification returns
\* an entry only if the entry was saved for the same gpt_id, the same set
\* of file names, the same model and the same provider.
C29_RiskKeyUnique ==
    (op.name = "get_classification" /\ ret # None) =>
        risk.savedFor[generate_cache_key(op.gpt_id, op.file_names, op.llm_model,
                                         op.llm_provider)]
            = <<op.gpt_id, Range(op.file_names), op.llm_model, op.llm_provider>>

\* C30: a batch whose LLM call fails leaves the risk cache unchanged.
C30_FailedBatchNotCached ==
    [][(op'.name = "classify_batch" /\ op'.fail /\ risk'.pc = "batches"
           /\ Len(risk'.remaining_gpts) < Len(risk.remaining_gpts))
          => risk'.cache = risk.cache]_vars

====
